---------------------------- MODULE Spec2Model ----------------------------
(***************************************************************************)
(* dehydrate-calls (src/index.js): createCallCapturer, dehydrate,          *)
(* executeDehydrated and hydrate, as operators over JavaScript values, and *)
(* the client -> wire -> server pipeline that uses them as a state machine.*)
(*                                                                         *)
(* A JavaScript value is a record tagged by t:                             *)
(*   undefined, null, number (n), string (s), boolean (b),                 *)
(*   array (items), object (keys, vals: own properties in insertion order),*)
(*   function (id, class): a function of the context, id its identity,     *)
(*   proxy (target, path), capturer (path, class): what the call capturer  *)
(*   hands out,                                                            *)
(*   result (of, args) / instance (of, args): the value of calling /       *)
(*   constructing function `of` with `args` (context functions are left    *)
(*   uninterpreted: two results are equal iff same function, same args),   *)
(*   error (name, message): a thrown exception.                            *)
(* A completion [ok, val, calls] is what evaluating an expression gives:   *)
(* the value returned (ok) or thrown (~ok), and the context functions      *)
(* whose body ran while evaluating it, in order.                           *)
(***************************************************************************)
EXTENDS Integers, Sequences, FiniteSets, TLC

VARIABLES op, builder, client, payload, wire, context, out

vars == <<op, builder, client, payload, wire, context, out>>

-----------------------------------------------------------------------------
(* JavaScript values *)

Undefined == [t |-> "undefined"]
Null == [t |-> "null"]
Num(n) == [t |-> "number", n |-> n]
Str(s) == [t |-> "string", s |-> s]
Bool(b) == [t |-> "boolean", b |-> b]
Arr(items) == [t |-> "array", items |-> items]
Obj(keys, vals) == [t |-> "object", keys |-> keys, vals |-> vals]
Fn(id, class) == [t |-> "function", id |-> id, class |-> class]
ErrorValue(name, message) == [t |-> "error", name |-> name, message |-> message]

\* ToBoolean: the test of `if (x)` and of `x && ...`.
Truthy(v) ==
    CASE v.t = "undefined" -> FALSE
      [] v.t = "null" -> FALSE
      [] v.t = "number" -> v.n # 0
      [] v.t = "string" -> v.s # ""
      [] v.t = "boolean" -> v.b
      [] OTHER -> TRUE

\* typeof v === "object" for a truthy payload or context value (null is excluded
\* by the truthiness test that precedes it in the code).
TypeofObject(v) == v.t \in {"array", "object"}

Range(s) == {s[i] : i \in DOMAIN s}

Index(keys, k) == CHOOSE i \in DOMAIN keys : keys[i] = k

\* o[k] on a value: the own properties of objects. Contexts and payloads are
\* modelled by their own properties (nothing inherited, no property on
\* functions or primitives), so a name an object does not list is undefined.
Get(o, k) ==
    IF o.t = "object" /\ k \in Range(o.keys) THEN o.vals[Index(o.keys, k)] ELSE Undefined

KeySet(o) == Range(o.keys)

\* Completions
Return(v, calls) == [ok |-> TRUE, val |-> v, calls |-> calls]
Throw(e, calls) == [ok |-> FALSE, val |-> e, calls |-> calls]

\* isClass of @tim-code/my-util: whether a function was declared with `class`.
isClass(value) == value.t = "function" /\ value.class

\* Array.prototype.join(".") on an array of strings.
RECURSIVE join(_)
join(keys) ==
    IF keys = <<>> THEN ""
    ELSE IF Len(keys) = 1 THEN Head(keys).s
    ELSE Head(keys).s \o "." \o join(Tail(keys))

\* f(...args): the body of f runs once with args. A function declared with
\* `class` rejects a plain call (the language throws before the body runs).
Call(f, args) ==
    IF f.class
    THEN Throw(ErrorValue("TypeError", "Class constructor cannot be invoked without 'new'"), <<>>)
    ELSE Return([t |-> "result", of |-> f.id, args |-> args],
                <<[fn |-> f.id, args |-> args, new |-> FALSE]>>)

\* new f(...args)
Construct(f, args) ==
    Return([t |-> "instance", of |-> f.id, args |-> args],
           <<[fn |-> f.id, args |-> args, new |-> TRUE]>>)

-----------------------------------------------------------------------------
(* executeDehydrated and hydrate (src/index.js 66-117) *)

\* pathContext?.[key]: undefined on undefined/null, the property otherwise.
\* Path entries are strings (the wire format), used as property names.
OptionalGet(pathContext, key) ==
    IF pathContext.t \in {"undefined", "null"} THEN Undefined ELSE Get(pathContext, key.s)

\* for (const key of _path) pathContext = pathContext?.[key]
RECURSIVE walkPath(_, _)
walkPath(pathContext, keys) ==
    IF keys = <<>> THEN pathContext
    ELSE walkPath(OptionalGet(pathContext, Head(keys)), Tail(keys))

\* Faulty variant of push: the result put in front (results.unshift(v)).
unshift(results, v) == <<v>> \o results

\* results.push(v)
push(results, v) == Append(results, v)

\* The test `if (json._path)` that sends a mapping to executeDehydrated.
hasPath(json) == Truthy(Get(json, "_path"))

\* Faulty variant of noFunctionError: the message names the last key only.
noFunctionErrorLastKey(_path) ==
    ErrorValue("Error", "context does not have a function at path: "
                        \o (IF _path.items = <<>> THEN ""
                            ELSE _path.items[Len(_path.items)].s))

\* The error of line 85.
noFunctionError(_path) ==
    ErrorValue("Error", "context does not have a function at path: " \o join(_path.items))

\* The error of line 79.
noClassError(_path) ==
    ErrorValue("Error", "context does not have a class at path: " \o join(_path.items))

\* What the language throws when a value that is no array is iterated or spread.
notIterable == ErrorValue("TypeError", "value is not iterable")

\* Faulty variant of argsGiven: an empty argument list taken for none
\* (if (_args?.length)).
argsGivenNonEmpty(_args) == _args.t = "array" /\ _args.items # <<>>

\* if (_args): the branch that invokes, as opposed to returning the function.
argsGiven(_args) == Truthy(_args)

\* Faulty variant of invoke: the isClass test left out, `new` applied to
\* whatever the path leads to.
invokeUnchecked(pathContext, _path, _class, args) ==
    IF args.t # "array" THEN Throw(notIterable, <<>>)
    ELSE IF Truthy(_class) THEN Construct(pathContext, args.items)
         ELSE Call(pathContext, args.items)

\* Variant of invoke with a check of its own: a class asked for without
\* _class is refused with the capturer's error instead of being called.
invokeChecked(pathContext, _path, _class, args) ==
    IF Truthy(_class)
    THEN IF isClass(pathContext)
         THEN IF args.t = "array" THEN Construct(pathContext, args.items)
              ELSE Throw(notIterable, <<>>)
         ELSE Throw(noClassError(_path), <<>>)
    ELSE IF isClass(pathContext)
         THEN Throw(ErrorValue("Error", "captured class instantiations should also use 'new'"),
                    <<>>)
         ELSE IF args.t = "array" THEN Call(pathContext, args.items)
              ELSE Throw(notIterable, <<>>)

\* The invocation of lines 75-81, args being the hydrated argument array.
invoke(pathContext, _path, _class, args) ==
    IF Truthy(_class)
    THEN IF isClass(pathContext)
         THEN IF args.t = "array" THEN Construct(pathContext, args.items)
              ELSE Throw(notIterable, <<>>)
         ELSE Throw(noClassError(_path), <<>>)
    ELSE IF args.t = "array" THEN Call(pathContext, args.items)
         ELSE Throw(notIterable, <<>>)

RECURSIVE hydrate(_, _)
RECURSIVE executeDehydrated(_, _)
RECURSIVE hydrateElements(_, _, _)
RECURSIVE hydrateProperties(_, _, _, _)

\* Then: completion c followed, when c returned, by the completion next,
\* whose calls come after those of c.
Then(c, next) ==
    IF c.ok THEN [next EXCEPT !.calls = c.calls \o @] ELSE c

\* Faulty variant of executeDehydrated: the arguments passed on as they are,
\* hydrate(_args, context) left out.
executeDehydratedRawArgs(ctx, json) ==
    LET _path == Get(json, "_path")
        _args == Get(json, "_args")
        _class == Get(json, "_class")
    IN  IF _path.t # "array" THEN Throw(notIterable, <<>>)
        ELSE LET pathContext == walkPath(ctx, _path.items)
             IN  IF pathContext.t = "function"
                 THEN IF argsGiven(_args)
                      THEN invoke(pathContext, _path, _class, _args)
                      ELSE Return(pathContext, <<>>)
                 ELSE Throw(noFunctionError(_path), <<>>)

\* executeDehydrated(context, { _path, _args, _class }). The modelled payloads
\* hold an array of strings, or a value that cannot be iterated, as _path (a
\* non-empty string, which the loop would walk character by character, is not
\* among them).
executeDehydrated(ctx, json) ==
    LET _path == Get(json, "_path")
        _args == Get(json, "_args")
        _class == Get(json, "_class")
    IN  IF _path.t # "array" THEN Throw(notIterable, <<>>)
        ELSE LET pathContext == walkPath(ctx, _path.items)
             IN  IF pathContext.t = "function"
                 THEN IF argsGiven(_args)
                      THEN LET args == hydrate(_args, ctx)
                           IN  IF args.ok
                               THEN Then(args, invoke(pathContext, _path, _class, args.val))
                               ELSE args
                      ELSE Return(pathContext, <<>>)
                 ELSE Throw(noFunctionError(_path), <<>>)

\* for (const element of json) results.push(hydrate(element, context))
\* acc is the completion of the loop so far, its value the results array.
hydrateElements(elements, ctx, acc) ==
    IF elements = <<>> \/ ~acc.ok THEN acc
    ELSE LET r == hydrate(Head(elements), ctx)
         IN  hydrateElements(Tail(elements), ctx,
                IF r.ok
                THEN Return(Arr(push(acc.val.items, r.val)), acc.calls \o r.calls)
                ELSE Throw(r.val, acc.calls \o r.calls))

\* for (const key of Object.keys(json)) result[key] = hydrate(json[key], context)
hydrateProperties(keys, json, ctx, acc) ==
    IF keys = <<>> \/ ~acc.ok THEN acc
    ELSE LET r == hydrate(Get(json, Head(keys)), ctx)
         IN  hydrateProperties(Tail(keys), json, ctx,
                IF r.ok
                THEN Return(Obj(Append(acc.val.keys, Head(keys)), Append(acc.val.vals, r.val)),
                            acc.calls \o r.calls)
                ELSE Throw(r.val, acc.calls \o r.calls))

hydrate(json, ctx) ==
    IF Truthy(json) /\ TypeofObject(json)
    THEN IF json.t = "array"
         THEN hydrateElements(json.items, ctx, Return(Arr(<<>>), <<>>))
         ELSE IF hasPath(json)
              THEN executeDehydrated(ctx, json)
              ELSE hydrateProperties(json.keys, json, ctx, Return(Obj(<<>>, <<>>), <<>>))
    ELSE Return(json, <<>>)

-----------------------------------------------------------------------------
(* createCallCapturer and dehydrate (src/index.js 15-64) *)

\* path.concat([key]) as the _path array of a descriptor
pathArray(path) == Arr([i \in DOMAIN path |-> Str(path[i])])

\* new Proxy(context, {get})
createCallCapturer(ctx, path) == [t |-> "proxy", target |-> ctx, path |-> path]

\* The function the get trap returns for a function of the context.
Capturer(path, class) == [t |-> "capturer", path |-> path, class |-> class]

\* The error of lines 46-48.
noFunctionForPathError(path) ==
    ErrorValue("Error", "context does not have function for path: "
                        \o join(pathArray(path).items))

\* The error of line 27.
useNewError == ErrorValue("Error", "captured class instantiations should also use 'new'")

\* The get trap, lines 17-49.
get(proxy, key) ==
    LET value == Get(proxy.target, key)
    IN  IF value.t = "function"
        THEN Return(Capturer(proxy.path \o <<key>>, isClass(value)), <<>>)
        ELSE IF Truthy(value) /\ TypeofObject(value)
             THEN Return(createCallCapturer(value, proxy.path \o <<key>>), <<>>)
             ELSE Throw(noFunctionForPathError(proxy.path \o <<key>>), <<>>)

\* Faulty variant of callDescriptor: _path: [key] instead of path.concat([key]).
callDescriptorKeyOnly(path, _args) ==
    Obj(<<"_path", "_args">>, <<pathArray(<<path[Len(path)]>>), Arr(_args)>>)

\* { _path: path.concat([key]), _args } (line 33)
callDescriptor(path, _args) ==
    Obj(<<"_path", "_args">>, <<pathArray(path), Arr(_args)>>)

\* Faulty variant of classDescriptor: the _class mark left out.
classDescriptorUnmarked(path, _args) ==
    Obj(<<"_path", "_args">>, <<pathArray(path), Arr(_args)>>)

\* { _path: path.concat([key]), _class: true, _args } (line 29)
classDescriptor(path, _args) ==
    Obj(<<"_path", "_class", "_args">>, <<pathArray(path), Bool(TRUE), Arr(_args)>>)

\* Faulty variant of toJSON: the reference to a class carries _class: true.
toJSONWithClass(capturer) ==
    IF capturer.class
    THEN Obj(<<"_path", "_class">>, <<pathArray(capturer.path), Bool(TRUE)>>)
    ELSE Obj(<<"_path">>, <<pathArray(capturer.path)>>)

\* capturer.toJSON (lines 38-40)
toJSON(capturer) == Obj(<<"_path">>, <<pathArray(capturer.path)>>)

\* Invoking a capturer with _args, newTarget telling whether `new` was used
\* (lines 25-34). The capturer of a plain function is an arrow function,
\* which the language refuses to construct.
capture(capturer, _args, newTarget) ==
    IF capturer.class
    THEN IF ~newTarget THEN Throw(useNewError, <<>>)
         ELSE Return(classDescriptor(capturer.path, _args), <<>>)
    ELSE IF newTarget
         THEN Throw(ErrorValue("TypeError", "capturer is not a constructor"), <<>>)
         ELSE Return(callDescriptor(capturer.path, _args), <<>>)

-----------------------------------------------------------------------------
(* The callback given to dehydrate, and JSON.parse(JSON.stringify(x)).     *)
(* A callback is an expression over its parameter $:                       *)
(*   lit (v), ref (path): $.a.b, call (path, args): $.a.b(args),           *)
(*   new (path, args): new $.a.b(args), arr (items), obj (keys, vals).     *)
(* The same expression is evaluated with $ the call capturer (dehydrate)   *)
(* or with $ the context itself (the values the expression stands for).    *)

Lit(v) == [e |-> "lit", v |-> v]
RefE(path) == [e |-> "ref", path |-> path]
CallE(path, args) == [e |-> "call", path |-> path, args |-> args]
NewE(path, args) == [e |-> "new", path |-> path, args |-> args]
ArrE(items) == [e |-> "arr", items |-> items]
ObjE(keys, vals) == [e |-> "obj", keys |-> keys, vals |-> vals]

\* base.key in the callback: the get trap on a proxy, a property read otherwise
\* (which throws on undefined and null).
member(base, key) ==
    IF base.t = "proxy" THEN get(base, key)
    ELSE IF base.t \in {"undefined", "null"}
         THEN Throw(ErrorValue("TypeError", "cannot read properties of undefined"), <<>>)
         ELSE Return(Get(base, key), <<>>)

RECURSIVE navigate(_, _)
navigate(base, path) ==
    IF path = <<>> THEN Return(base, <<>>)
    ELSE LET c == member(base, Head(path))
         IN  IF c.ok THEN navigate(c.val, Tail(path)) ELSE c

\* callee(...args) or new callee(...args) in the callback
apply(callee, args, newTarget) ==
    IF callee.t = "capturer" THEN capture(callee, args, newTarget)
    ELSE IF callee.t = "function"
         THEN IF newTarget THEN Construct(callee, args) ELSE Call(callee, args)
         ELSE Throw(ErrorValue("TypeError", "callee is not a function"), <<>>)

RECURSIVE run(_, _)
RECURSIVE runAll(_, _, _)

\* The expressions es evaluated left to right; acc the completion so far, its
\* value the array of their values.
runAll(es, root, acc) ==
    IF es = <<>> \/ ~acc.ok THEN acc
    ELSE LET r == run(Head(es), root)
         IN  runAll(Tail(es), root,
                IF r.ok THEN Return(Arr(Append(acc.val.items, r.val)), acc.calls \o r.calls)
                ELSE Throw(r.val, acc.calls \o r.calls))

run(expr, root) ==
    CASE expr.e = "lit" -> Return(expr.v, <<>>)
      [] expr.e = "ref" -> navigate(root, expr.path)
      [] expr.e \in {"call", "new"} ->
            LET callee == navigate(root, expr.path)
            IN  IF ~callee.ok THEN callee
                ELSE LET args == runAll(expr.args, root, Return(Arr(<<>>), <<>>))
                     IN  IF args.ok
                         THEN Then(args, apply(callee.val, args.val.items, expr.e = "new"))
                         ELSE args
      [] expr.e = "arr" -> runAll(expr.items, root, Return(Arr(<<>>), <<>>))
      [] expr.e = "obj" ->
            LET vs == runAll(expr.vals, root, Return(Arr(<<>>), <<>>))
            IN  IF vs.ok THEN Return(Obj(expr.keys, vs.val.items), vs.calls) ELSE vs

\* dehydrate(context, callback), lines 61-64
dehydrate(ctx, callback) == run(callback, createCallCapturer(ctx, <<>>))

\* JSON.parse(JSON.stringify(v)) on what a callback can return: a capturer is
\* replaced by its toJSON(), arrays and objects are rebuilt member by member,
\* JSON values stay.
RECURSIVE serialize(_)
serialize(v) ==
    CASE v.t = "capturer" -> toJSON(v)
      [] v.t = "array" -> Arr([i \in DOMAIN v.items |-> serialize(v.items[i])])
      [] v.t = "object" -> Obj(v.keys, [i \in DOMAIN v.vals |-> serialize(v.vals[i])])
      [] OTHER -> v

-----------------------------------------------------------------------------
(* Contexts, payloads and callbacks the operations are applied to *)

\* Longest argument list of a descriptor or of a captured call.
MaxArgs == 2
\* Longest array of a payload.
MaxElems == 3

SeqsUpTo(S, n) == UNION {[1..k -> S] : k \in 0..n}

None == [t |-> "none"]

sqrtFn == Fn("sqrt", FALSE)
maxFn == Fn("max", FALSE)
BoxClass == Fn("Box", TRUE)

\* { Math: { sqrt, max }, NS: { Box }, f: sqrt, value: 42 }: f and Math.sqrt
\* are the same function.
Context1 ==
    Obj(<<"Math", "NS", "f", "value">>,
        <<Obj(<<"sqrt", "max">>, <<sqrtFn, maxFn>>), Obj(<<"Box">>, <<BoxClass>>),
          sqrtFn, Num(42)>>)

\* {}
Context2 == Obj(<<>>, <<>>)

\* A context of another shape under the same names: Math.sqrt is a class,
\* NS.Box a plain function, value is null.
Context3 ==
    Obj(<<"Math", "NS", "value">>,
        <<Obj(<<"sqrt", "max">>, <<Fn("Root", TRUE), Fn("max3", FALSE)>>),
          Obj(<<"Box">>, <<Fn("box3", FALSE)>>), Null>>)

Contexts == {Context1, Context2, Context3}

Paths ==
    { <<"Math", "sqrt">>, <<"Math", "max">>, <<"NS", "Box">>, <<"f">>, <<"value">>,
      <<"Math">>, <<"Missing", "fn">>, <<"Math", "sqrt", "x">>, <<"value", "x">>, <<>> }

\* A descriptor: _args and _class are left out when given as Undefined.
Desc(path, _args, _class) ==
    Obj(<<"_path">> \o (IF _args = Undefined THEN <<>> ELSE <<"_args">>)
                    \o (IF _class = Undefined THEN <<>> ELSE <<"_class">>),
        <<pathArray(path)>> \o (IF _args = Undefined THEN <<>> ELSE <<_args>>)
                            \o (IF _class = Undefined THEN <<>> ELSE <<_class>>))

innerRef == Desc(<<"Math", "sqrt">>, Undefined, Undefined)
innerCall == Desc(<<"Math", "sqrt">>, Arr(<<Num(16)>>), Undefined)
innerNew == Desc(<<"NS", "Box">>, Arr(<<Num(1)>>), Bool(TRUE))
innerMissing == Desc(<<"Missing", "fn">>, Arr(<<>>), Undefined)
innerNested == Desc(<<"Math", "max">>, Arr(<<innerCall, Num(3)>>), Undefined)

ArgAtoms == {Num(16), innerRef, innerCall, innerNew, innerMissing, innerNested}

ArgLists == SeqsUpTo(ArgAtoms, MaxArgs)

\* _args of a descriptor: absent, null, a number, or an argument list.
ArgsOptions == {Undefined, Null, Num(5)} \cup {Arr(a) : a \in ArgLists}

ClassOptions == {Undefined, Bool(TRUE), Bool(FALSE)}

Descriptors == {Desc(p, a, c) : p \in Paths, a \in ArgsOptions, c \in ClassOptions}

plainObject == Obj(<<"alpha">>, <<Num(1)>>)

\* Mappings whose _path field holds a value that is no path.
OddPaths == {Str(""), Num(0), Bool(FALSE), Null, Arr(<<>>), Num(7)}

OddDescriptors ==
    {Obj(<<"_path">>, <<v>>) : v \in OddPaths}
    \cup {Obj(<<"_path", "_args">>, <<v, Arr(<<innerCall>>)>>) : v \in OddPaths}
    \cup {Obj(<<"k", "_path">>, <<innerCall, v>>) : v \in OddPaths}

ElemAtoms == {Num(10), innerCall, innerRef, innerMissing, plainObject}

Primitives == {Null, Num(5), Num(0), Str("x"), Str(""), Bool(TRUE), Bool(FALSE)}

Payloads ==
    Primitives
    \cup {Arr(a) : a \in SeqsUpTo(ElemAtoms, MaxElems)}
    \cup {Obj(<<"a">>, <<x>>) : x \in ElemAtoms \cup Primitives}
    \cup {Obj(<<"a", "b">>, <<x, y>>) : x \in ElemAtoms, y \in ElemAtoms}
    \cup {Obj(<<"x", "y">>, <<innerNested, Arr(<<innerNew, Num(10), Obj(<<"nested">>, <<plainObject>>)>>)>>),
          Arr(<<Arr(<<innerCall>>), Obj(<<"k">>, <<Arr(<<innerRef, Null>>)>>)>>)}
    \cup OddDescriptors
    \cup {Desc(p, a, Undefined) : p \in Paths, a \in {Undefined, Arr(<<>>), Arr(<<innerCall>>)}}

\* Callbacks
CallbackPaths ==
    { <<"Math", "sqrt">>, <<"Math", "max">>, <<"NS", "Box">>, <<"f">>, <<"value">>,
      <<"Math">>, <<"Missing", "fn">> }

\* Paths a callback references without invoking: none is a namespace of a context.
RefPaths == CallbackPaths \ {<<"Math">>}

CallbackArgs ==
    { Lit(Num(16)), RefE(<<"Math", "sqrt">>), RefE(<<"NS", "Box">>),
      CallE(<<"Math", "sqrt">>, <<Lit(Num(16))>>), NewE(<<"NS", "Box">>, <<Lit(plainObject)>>) }

CallbackArgLists == SeqsUpTo(CallbackArgs, MaxArgs)

Invocations ==
    {CallE(p, a) : p \in CallbackPaths, a \in CallbackArgLists}
    \cup {NewE(p, a) : p \in CallbackPaths, a \in CallbackArgLists}
    \cup {RefE(p) : p \in RefPaths}

Callbacks ==
    Invocations
    \cup {ArrE(a) : a \in CallbackArgLists}
    \cup {ObjE(<<"a", "ref", "mixed">>,
               <<CallE(<<"Math", "sqrt">>, <<Lit(Num(16))>>), RefE(p),
                 ArrE(<<CallE(<<"Math", "max">>, a), Lit(Str("x"))>>)>>) :
            p \in RefPaths, a \in CallbackArgLists}
    \cup {Lit(v) : v \in Primitives}

-----------------------------------------------------------------------------
(* The pipeline: a client dehydrates a callback and sends the JSON, a server *)
(* hydrates what it receives; a caller may also hand hydrate or             *)
(* executeDehydrated a payload it wrote itself. Calls share no state: Reset  *)
(* forgets the last one.                                                     *)

Init ==
    /\ op = "idle"
    /\ builder = None
    /\ client = None
    /\ payload = None
    /\ wire = None
    /\ context = None
    /\ out = None

Dehydrate ==
    /\ op = "idle"
    /\ \E T \in Contexts, callback \in Callbacks :
          /\ builder' = callback
          /\ client' = T
          /\ payload' = dehydrate(T, callback)
    /\ op' = "dehydrated"
    /\ UNCHANGED <<wire, context, out>>

Send ==
    /\ op = "dehydrated"
    /\ payload.ok
    /\ wire' = serialize(payload.val)
    /\ op' = "sent"
    /\ UNCHANGED <<builder, client, payload, context, out>>

Receive ==
    /\ op = "sent"
    /\ \E T \in Contexts :
          /\ context' = T
          /\ out' = hydrate(wire, T)
    /\ op' = "hydrated"
    /\ UNCHANGED <<builder, client, payload, wire>>

Hydrate ==
    /\ op = "idle"
    /\ \E T \in Contexts, json \in Payloads :
          /\ wire' = json
          /\ context' = T
          /\ out' = hydrate(json, T)
    /\ op' = "hydrated"
    /\ UNCHANGED <<builder, client, payload>>

Execute ==
    /\ op = "idle"
    /\ \E T \in Contexts, json \in Descriptors :
          /\ wire' = json
          /\ context' = T
          /\ out' = executeDehydrated(T, json)
    /\ op' = "executed"
    /\ UNCHANGED <<builder, client, payload>>

Reset ==
    /\ op # "idle"
    /\ op' = "idle"
    /\ builder' = None
    /\ client' = None
    /\ payload' = None
    /\ wire' = None
    /\ context' = None
    /\ out' = None

Next == Dehydrate \/ Send \/ Receive \/ Hydrate \/ Execute \/ Reset

Spec == Init /\ [][Next]_vars

-----------------------------------------------------------------------------
(* Vocabulary of the properties *)

\* The node a path of names leads to in a capability tree, Undefined when a
\* name is missing on the way.
RECURSIVE Reach(_, _)
Reach(node, names) ==
    IF names = <<>> THEN node
    ELSE IF node.t = "object" /\ Head(names) \in KeySet(node)
         THEN Reach(Get(node, Head(names)), Tail(names))
         ELSE Undefined

\* The names joined by dots.
RECURSIVE Dotted(_)
Dotted(names) ==
    IF names = <<>> THEN ""
    ELSE IF Len(names) = 1 THEN names[1]
    ELSE names[1] \o "." \o Dotted(Tail(names))

IsNamespace(node) == node.t = "object"
IsCallable(node) == node.t = "function"
IsPlain(node) == node.t = "function" /\ ~node.class
IsConstructorStyle(node) == node.t = "function" /\ node.class

\* The descriptor handed to executeDehydrated, once it has run.
Executed == op = "executed"
dPath == [i \in DOMAIN Get(wire, "_path").items |-> Get(wire, "_path").items[i].s]
dArgs == Get(wire, "_args")
dClass == Get(wire, "_class")
dTarget == Reach(context, dPath)
ArgsAbsent == "_args" \notin KeySet(wire)
ArgsPresent == "_args" \in KeySet(wire) /\ dArgs.t = "array"
\* The hydration of the descriptor's arguments on their own.
dHydratedArgs == hydrate(dArgs, context)

IsReference(v) == v.t = "object" /\ KeySet(v) = {"_path"} /\ Get(v, "_path").t = "array"

Last(s) == s[Len(s)]

\* Whether a mapping with a _path field occurs in v.
RECURSIVE HasPathField(_)
HasPathField(v) ==
    CASE v.t = "array" -> \E i \in DOMAIN v.items : HasPathField(v.items[i])
      [] v.t = "object" -> "_path" \in KeySet(v) \/ \E i \in DOMAIN v.vals : HasPathField(v.vals[i])
      [] OTHER -> FALSE

\* Whether a mapping with _class true and no _args occurs in v.
RECURSIVE HasClassWithoutArgs(_)
HasClassWithoutArgs(v) ==
    CASE v.t = "array" -> \E i \in DOMAIN v.items : HasClassWithoutArgs(v.items[i])
      [] v.t = "object" ->
            \/ Get(v, "_class") = Bool(TRUE) /\ "_args" \notin KeySet(v)
            \/ \E i \in DOMAIN v.vals : HasClassWithoutArgs(v.vals[i])
      [] OTHER -> FALSE

-----------------------------------------------------------------------------
(* Properties of executeDehydrated *)

\* C1: a descriptor {_path, _args} whose path leads to a plain function f:
\* the arguments are hydrated first (each nested descriptor replaced by the
\* outcome of resolving it), then f runs exactly once with the hydrated
\* arguments and its result is the value of the resolution; an argument that
\* throws ends the resolution with that exception before f runs.
C1_PlainCallAfterArguments ==
    (Executed /\ IsPlain(dTarget) /\ ArgsPresent /\ ~Truthy(dClass)) =>
        IF dHydratedArgs.ok
        THEN /\ out.ok
             /\ out.val = [t |-> "result", of |-> dTarget.id, args |-> dHydratedArgs.val.items]
             /\ out.calls = dHydratedArgs.calls
                              \o <<[fn |-> dTarget.id, args |-> dHydratedArgs.val.items,
                                    new |-> FALSE]>>
             /\ \A i \in DOMAIN dArgs.items :
                   HasPathField(dArgs.items[i]) =>
                       out.val.args[i] = executeDehydrated(context, dArgs.items[i]).val
        ELSE out = dHydratedArgs

\* C1 witness: max called on the result of a nested sqrt call.
C1_Witness ==
    /\ Executed
    /\ context = Context1
    /\ wire = Desc(<<"Math", "max">>, Arr(<<innerCall, Num(16)>>), Undefined)
    /\ out.ok
    /\ Len(out.calls) = 2
    /\ out.calls[1].fn = "sqrt" /\ out.calls[2].fn = "max"

\* C3: a path that does not lead to a function (a name missing on the way, or
\* a target that is no function): the resolution throws the error of line 85,
\* its message ending with the whole path joined by dots, and nothing was
\* invoked: the arguments were not hydrated.
C3_UnresolvedPathFails ==
    (Executed /\ ~IsCallable(dTarget)) =>
        /\ ~out.ok
        /\ out.val = ErrorValue("Error",
                        "context does not have a function at path: " \o Dotted(dPath))
        /\ out.calls = <<>>

\* C3 witness: Missing.fn against {} with an argument that would call sqrt.
C3_Witness ==
    /\ Executed
    /\ context = Context2
    /\ wire = Desc(<<"Missing", "fn">>, Arr(<<innerCall>>), Undefined)
    /\ out.val.message = "context does not have a function at path: Missing.fn"

\* C4: a path that leads to a function f. Without _args the resolution returns
\* f itself and invokes nothing. With an _args array, the empty one included,
\* the resolution invokes: once the arguments have hydrated and the mode fits
\* the target (C5, C6), f runs with them as the last call. A reference among
\* the arguments of a plain call reaches the callee as the function itself.
C4_ReferenceOrInvocation ==
    (Executed /\ IsCallable(dTarget)) =>
        /\ ArgsAbsent => out = Return(dTarget, <<>>)
        /\ (ArgsPresent /\ ~dHydratedArgs.ok) => out = dHydratedArgs
        /\ (ArgsPresent /\ dHydratedArgs.ok) =>
              /\ out # Return(dTarget, <<>>)
              /\ (Truthy(dClass) <=> dTarget.class) =>
                    /\ out.ok
                    /\ Len(out.calls) = Len(dHydratedArgs.calls) + 1
                    /\ Last(out.calls) = [fn |-> dTarget.id, args |-> dHydratedArgs.val.items,
                                          new |-> dTarget.class]
                    /\ \A i \in DOMAIN dArgs.items :
                          (IsReference(dArgs.items[i])
                             /\ IsCallable(Reach(context,
                                   [j \in DOMAIN Get(dArgs.items[i], "_path").items |->
                                       Get(dArgs.items[i], "_path").items[j].s]))) =>
                              Last(out.calls).args[i] =
                                  Reach(context,
                                        [j \in DOMAIN Get(dArgs.items[i], "_path").items |->
                                            Get(dArgs.items[i], "_path").items[j].s])

\* C4 witness: f called with no argument, the empty _args array present.
C4_Witness ==
    /\ Executed
    /\ context = Context1
    /\ wire = Desc(<<"f">>, Arr(<<>>), Undefined)
    /\ out.ok
    /\ out.calls = <<[fn |-> "sqrt", args |-> <<>>, new |-> FALSE]>>

\* C5: _args present, _class true, a path that leads to a function, the
\* arguments hydrated: a target that is no class makes the resolution throw the
\* error of line 79 naming the dotted path, the target neither called nor
\* constructed; a class is constructed (not called) with the hydrated
\* arguments and the new instance returned.
C5_ConstructOrNotAClass ==
    (Executed /\ IsCallable(dTarget) /\ ArgsPresent /\ dClass = Bool(TRUE)) =>
        IF ~dHydratedArgs.ok THEN out = dHydratedArgs
        ELSE IF IsConstructorStyle(dTarget)
        THEN /\ out.ok
             /\ out.val = [t |-> "instance", of |-> dTarget.id,
                           args |-> dHydratedArgs.val.items]
             /\ out.calls = dHydratedArgs.calls
                              \o <<[fn |-> dTarget.id, args |-> dHydratedArgs.val.items,
                                    new |-> TRUE]>>
        ELSE /\ ~out.ok
             /\ out.val = ErrorValue("Error",
                             "context does not have a class at path: " \o Dotted(dPath))
             /\ out.calls = dHydratedArgs.calls

\* C5 witness: construction asked of the plain function f.
C5_Witness ==
    /\ Executed
    /\ context = Context1
    /\ wire = Desc(<<"f">>, Arr(<<innerCall>>), Bool(TRUE))
    /\ out.val.message = "context does not have a class at path: f"
    /\ out.calls = <<[fn |-> "sqrt", args |-> <<Num(16)>>, new |-> FALSE]>>

\* C6 as claimed: a class target resolved with _args and without _class makes
\* the resolver itself throw the error that asks for a construction.
C6_ResolverRaisesInvocationModeError ==
    (Executed /\ IsConstructorStyle(dTarget) /\ ArgsPresent /\ ~Truthy(dClass)
        /\ dHydratedArgs.ok) =>
        /\ ~out.ok
        /\ out.val = useNewError

\* C6 as the code has it: the resolver makes no check of its own: it hydrates
\* the arguments and performs the plain call of line 81, which the language
\* rejects for a class with a TypeError before the constructor body runs.
C6_PlainCallOfClassIsRejectedByTheLanguage ==
    (Executed /\ IsConstructorStyle(dTarget) /\ ArgsPresent /\ ~Truthy(dClass)
        /\ dHydratedArgs.ok) =>
        /\ ~out.ok
        /\ out.val.name = "TypeError"
        /\ out.val # useNewError
        /\ out.calls = dHydratedArgs.calls

\* C6 witness: NS.Box resolved with arguments and no _class.
C6_Witness ==
    /\ Executed
    /\ context = Context1
    /\ wire = Desc(<<"NS", "Box">>, Arr(<<Num(16)>>), Undefined)
    /\ ~out.ok

-----------------------------------------------------------------------------
(* Properties of hydrate *)

Hydrated == op = "hydrated"

\* C2: hydrate keeps the containers. An array hydrates to an array of the
\* same length, element i the hydration of element i (an element that throws
\* ends the hydration with an exception); a mapping without a _path field to a
\* mapping with the same keys, each value hydrated; a primitive or null to
\* itself. A payload in which no _path field occurs hydrates to an equal
\* value, against any context, and nothing is invoked.
C2_HydratePreservesStructure ==
    Hydrated =>
        /\ (wire.t = "array" /\ out.ok) =>
              /\ out.val.t = "array"
              /\ Len(out.val.items) = Len(wire.items)
              /\ \A i \in DOMAIN wire.items :
                    /\ hydrate(wire.items[i], context).ok
                    /\ out.val.items[i] = hydrate(wire.items[i], context).val
        /\ (wire.t = "array" /\ ~out.ok) =>
              \E i \in DOMAIN wire.items :
                 /\ ~hydrate(wire.items[i], context).ok
                 /\ out.val = hydrate(wire.items[i], context).val
        /\ (wire.t = "object" /\ "_path" \notin KeySet(wire) /\ out.ok) =>
              /\ out.val.t = "object"
              /\ KeySet(out.val) = KeySet(wire)
              /\ Len(out.val.keys) = Len(wire.keys)
              /\ \A k \in KeySet(wire) :
                    Get(out.val, k) = hydrate(Get(wire, k), context).val
        /\ wire.t \in {"null", "number", "string", "boolean"} => out = Return(wire, <<>>)
        /\ ~HasPathField(wire) => out = Return(wire, <<>>)

\* C2 witness: [d1, 10, d2] hydrated to [r1, 10, r2].
C2_Witness ==
    /\ Hydrated
    /\ context = Context1
    /\ wire = Arr(<<innerCall, Num(10), innerRef>>)
    /\ out.ok
    /\ out.val.items = <<[t |-> "result", of |-> "sqrt", args |-> <<Num(16)>>], Num(10), sqrtFn>>

\* C9 as claimed: a mapping goes to executeDehydrated exactly when it has a
\* _path field, whatever that field holds.
C9_PathFieldIsTheDiscriminator ==
    (Hydrated /\ wire.t = "object") =>
        IF "_path" \in KeySet(wire)
        THEN out = executeDehydrated(context, wire)
        ELSE out = hydrateProperties(wire.keys, wire, context, Return(Obj(<<>>, <<>>), <<>>))

-----------------------------------------------------------------------------
(* Properties of the call capturer and of the round trip *)

Dehydrated == op = "dehydrated"

\* The capturer the callback was given.
root == createCallCapturer(client, <<>>)
\* The values of the arguments of the callback's invocation, as captured.
capturedArgs == runAll(builder.args, root, Return(Arr(<<>>), <<>>))

Prefix(names, k) == SubSeq(names, 1, k)

\* The first name of the path at which navigation meets a child that is
\* neither a namespace nor a function, every name before it being a namespace.
FailsAt(k) ==
    /\ k \in 1..Len(builder.path)
    /\ \A j \in 1..(k - 1) : IsNamespace(Reach(client, Prefix(builder.path, j)))
    /\ ~IsNamespace(Reach(client, Prefix(builder.path, k)))
    /\ ~IsCallable(Reach(client, Prefix(builder.path, k)))

Navigates == builder.e \in {"ref", "call", "new"}

\* C7: navigation through namespaces to a plain function, then a call with
\* arguments A: the value is the descriptor {_path, _args: A} with no other
\* field, and no function of the context ran. Navigation that meets a child
\* that is neither a namespace nor a function (a leaf value, a missing name)
\* throws there, the message ending with the dotted path up to that name.
C7_CapturedPlainCall ==
    /\ (Dehydrated /\ builder.e = "call" /\ IsPlain(Reach(client, builder.path))
          /\ capturedArgs.ok) =>
          /\ payload.ok
          /\ KeySet(payload.val) = {"_path", "_args"}
          /\ Len(payload.val.keys) = 2
          /\ Get(payload.val, "_path") = pathArray(builder.path)
          /\ Get(payload.val, "_args") = capturedArgs.val
          /\ payload.calls = <<>>
    /\ (Dehydrated /\ Navigates) =>
          \A k \in 1..Len(builder.path) :
             FailsAt(k) =>
                /\ ~payload.ok
                /\ payload.val = ErrorValue("Error",
                       "context does not have function for path: "
                          \o Dotted(Prefix(builder.path, k)))
                /\ payload.calls = <<>>

\* C7 witness: $.Math.max(16, $.Math.sqrt(16)) captured.
C7_Witness ==
    /\ Dehydrated
    /\ client = Context1
    /\ builder = CallE(<<"Math", "max">>,
                       <<Lit(Num(16)), CallE(<<"Math", "sqrt">>, <<Lit(Num(16))>>)>>)
    /\ payload.ok
    /\ Get(payload.val, "_args").items[2] = callDescriptor(<<"Math", "sqrt">>, <<Num(16)>>)

\* C8: a class reached through the capturer. Invoked with new and arguments A
\* it gives {_path, _args: A, _class: true}; invoked without new it throws the
\* error of line 27 and gives no descriptor; referenced without being invoked
\* it serializes to {_path} alone. No descriptor the capturer produced, before
\* or after serialization, has _class true without _args.
C8_CapturedClass ==
    /\ (Dehydrated /\ builder.e = "new" /\ IsConstructorStyle(Reach(client, builder.path))
          /\ capturedArgs.ok) =>
          /\ payload.ok
          /\ KeySet(payload.val) = {"_path", "_args", "_class"}
          /\ Len(payload.val.keys) = 3
          /\ Get(payload.val, "_path") = pathArray(builder.path)
          /\ Get(payload.val, "_args") = capturedArgs.val
          /\ Get(payload.val, "_class") = Bool(TRUE)
    /\ (Dehydrated /\ builder.e = "call" /\ IsConstructorStyle(Reach(client, builder.path))
          /\ capturedArgs.ok) =>
          /\ ~payload.ok
          /\ payload.val = ErrorValue("Error",
                              "captured class instantiations should also use 'new'")
    /\ (op = "sent" /\ builder.e = "ref" /\ IsConstructorStyle(Reach(client, builder.path))) =>
          wire = Obj(<<"_path">>, <<pathArray(builder.path)>>)
    /\ (Dehydrated /\ payload.ok) => ~HasClassWithoutArgs(payload.val)
    /\ (op \in {"sent", "hydrated"} /\ builder # None) => ~HasClassWithoutArgs(wire)

\* C8 witness: new $.NS.Box($.NS.Box) captured and serialized: a construction
\* whose argument is the class, referenced and not invoked.
C8_Witness ==
    /\ op = "sent"
    /\ client = Context1
    /\ builder = NewE(<<"NS", "Box">>, <<RefE(<<"NS", "Box">>)>>)
    /\ wire = Obj(<<"_path", "_class", "_args">>,
                  <<pathArray(<<"NS", "Box">>), Bool(TRUE),
                    Arr(<<Obj(<<"_path">>, <<pathArray(<<"NS", "Box">>)>>)>>)>>)

=============================================================================
